---- MODULE Spec2Model ----
(***************************************************************************)
(* Model of the temperature-conversion misc driver                         *)
(* (src/Chapter1/convertdrv.c): the single driver context `ctx` with its   *)
(* 5-byte buffer converted_temp and its two counters, and the four file    *)
(* operations open / read / write / release.                               *)
(*                                                                         *)
(* Bytes are modelled by their ASCII codes.  C arrays are functions over   *)
(* 0..n-1 so that the fixed offset 3 of the source is offset 3 here.       *)
(* Byte strings handed to or from user space are TLA+ sequences.           *)
(***************************************************************************)
EXTENDS Integers, Sequences, FiniteSets, TLC

----------------------------------------------------------------------------
(* Program constants                                                       *)

MAXBYTES == 5

NUL == 0

ENOMEM == 12

EFAULT == 14

EINVAL == 22

ChF == 70

ChC == 67

ChMinus == 45

ChPlus == 43

ChNewline == 10

Ch0 == 48

Ch9 == 57

\* "None" as copied by convertdrv_init
SentinelBytes == <<78, 111, 110, 101>>

----------------------------------------------------------------------------
(* Bounds of the model                                                     *)

\* number of writes that may get past copy_from_user
MaxWrites == 2

\* number of reads that may return data
MaxReads == 2

\* largest count passed to write(2): one more than MAXBYTES
MaxCount == 6

\* the counts passed to read(2): nothing, less than a stored string, the
\* whole buffer
ReadCounts == {0, 2, MAXBYTES}

\* the bytes every user buffer is built from exhaustively: NUL and '1'
Alphabet == {NUL, Ch0 + 1}

\* further user buffers, each sent with its own length as count: the
\* tokens of the documentation and their neighbours
Tokens ==
    { <<70>>,                     \* "F"
      <<67>>,                     \* "C"
      <<48>>,                     \* "0"
      <<45>>,                     \* "-"
      <<48, 67>>,                 \* "0C"
      <<49, 70>>,                 \* "1F"
      <<48, 67, 0>>,              \* "0C" NUL
      <<48, 67, 10>>,             \* "0C" newline
      <<49, 48, 67>>,             \* "10C"
      <<49, 48, 70>>,             \* "10F"
      <<45, 49, 70>>,             \* "-1F"
      <<49, 0, 70>>,              \* "1" NUL "F"
      <<49, 48, 48, 70>>,         \* "100F"
      <<48, 48, 48, 70>>,         \* "000F"
      <<45, 49, 48, 70>>,         \* "-10F"
      <<97, 98, 99, 70>>,         \* "abcF"
      <<49, 0, 0, 70>>,           \* "1" NUL NUL "F"
      <<49, 48, 48, 70, 0>>,      \* "100F" NUL
      <<49, 48, 48, 70, 10>>,     \* "100F" newline
      <<49, 48, 48, 67, 0>>,      \* "100C" NUL
      <<48, 48, 48, 70, 0>>,      \* "000F" NUL
      <<45, 49, 48, 70, 0>>,      \* "-10F" NUL
      <<45, 49, 49, 67, 0>>,      \* "-11C" NUL
      <<45, 52, 48, 70, 0>>,      \* "-40F" NUL
      <<43, 49, 48, 70, 0>>,      \* "+10F" NUL
      <<49, 48, 10, 70, 0>>,      \* "10" newline "F" NUL
      <<45, 49, 10, 67, 0>>,      \* "-1" newline "C" NUL
      <<49, 10, 10, 67, 0>>,      \* "1" newline newline "C" NUL
      <<97, 98, 99, 70, 0>>,      \* "abcF" NUL
      <<49, 48, 48, 48, 70>>,     \* "1000F"
      <<49, 48, 48, 102, 0>>,     \* "100f" NUL
      <<49, 48, 48, 75, 10>>,     \* "100K" newline
      <<48, 67, 0, 0, 0>>,        \* "0C" NUL NUL NUL
      <<49, 48, 45, 70, 0>>,      \* "10-F" NUL
      <<49, 49, 49, 70, 0>>,      \* "111F" NUL
      <<49, 0, 0, 70, 0>>,        \* "1" NUL NUL "F" NUL
      <<0, 0, 0, 70, 0>>,         \* NUL NUL NUL "F" NUL
      <<70, 70, 70, 70, 0>>,      \* "FFFF" NUL
      <<49, 70, 70, 70, 0>>,      \* "1FFF" NUL
      <<78, 111, 110, 101, 0>> }  \* "None" NUL

\* the user buffers by length
PayloadsByLen ==
    [n \in 0..MaxCount |-> [1..n -> Alphabet] \cup {t \in Tokens : Len(t) = n}]

\* the user buffers of `count` bytes
Payloads(count) == PayloadsByLen[count]

----------------------------------------------------------------------------
(* Library routines, as the kernel implements them                         *)

\* C integer division: truncation toward zero
TruncDiv(a, b) == IF a >= 0 THEN a \div b ELSE -((-a) \div b)

\* strnlen(s, max) on a C array s (a function over 0..)
strnlen(s, max) ==
    IF \E i \in 0..(max - 1) : s[i] = NUL
    THEN CHOOSE i \in 0..(max - 1) : s[i] = NUL /\ \A j \in 0..(i - 1) : s[j] # NUL
    ELSE max

\* strlen(src) for a source object of n bytes (a sequence).  When the n
\* bytes hold no NUL the scan runs past the object; whatever it finds there
\* the result is at least n, which is all strlcpy looks at.
strlen(src) ==
    IF \E i \in 1..Len(src) : src[i] = NUL
    THEN (CHOOSE i \in 1..Len(src) : src[i] = NUL /\ \A j \in 1..(i - 1) : src[j] # NUL) - 1
    ELSE Len(src)

\* strlcpy(dest, src, size): the new contents of dest
strlcpy(dest, src, size) ==
    IF size = 0 THEN dest
    ELSE LET ret == strlen(src)
             len == IF ret >= size THEN size - 1 ELSE ret
         IN [i \in DOMAIN dest |->
                IF i < len THEN src[i + 1]
                ELSE IF i = len THEN NUL
                ELSE dest[i]]

IsDigit(c) == c \in Ch0..Ch9

\* the C string held in array s: its bytes before the first NUL
CString(s) == [i \in 1..strnlen(s, MAXBYTES) |-> s[i - 1]]

RECURSIVE DigitsValue(_)
\* _parse_integer on a sequence of decimal digits
DigitsValue(ds) ==
    IF ds = <<>> THEN 0
    ELSE 10 * DigitsValue(SubSeq(ds, 1, Len(ds) - 1)) + (ds[Len(ds)] - Ch0)

\* number of leading decimal digits of a sequence
LeadingDigits(str) ==
    IF \E i \in 1..Len(str) : ~IsDigit(str[i])
    THEN (CHOOSE i \in 1..Len(str) : ~IsDigit(str[i]) /\ \A j \in 1..(i - 1) : IsDigit(str[j])) - 1
    ELSE Len(str)

\* _kstrtoull(str, 10): digits, then an optional newline, then the end
kstrtoull_(str) ==
    LET n    == LeadingDigits(str)
        rest == SubSeq(str, n + 1, Len(str))
        tail == IF rest # <<>> /\ rest[1] = ChNewline THEN Tail(rest) ELSE rest
    IN IF n = 0 \/ tail # <<>>
       THEN [ret |-> -EINVAL, val |-> 0]
       ELSE [ret |-> 0, val |-> DigitsValue(SubSeq(str, 1, n))]

\* kstrtol(s, 10, &res) on the C string str: an optional sign ('-', or '+'
\* which is skipped), then _kstrtoull.  Strings of at most 3 bytes cannot
\* overflow a long, so -ERANGE does not arise.
kstrtol(str) ==
    IF str # <<>> /\ str[1] = ChMinus
    THEN LET r == kstrtoull_(Tail(str))
         IN IF r.ret # 0 THEN r ELSE [ret |-> 0, val |-> -r.val]
    ELSE IF str # <<>> /\ str[1] = ChPlus
    THEN kstrtoull_(Tail(str))
    ELSE kstrtoull_(str)

\* the division rounding down instead of toward zero
FtoC_Floor(v) == ((v - 32) * 5) \div 9

\* line 119
FtoC(v) == TruncDiv((v - 32) * 5, 9)

\* line 122
CtoF(v) == TruncDiv(v * 9, 5) + 32

----------------------------------------------------------------------------
(* State                                                                   *)

VARIABLES
    converted_temp,        \* ctx->converted_temp, a function over 0..MAXBYTES-1
    conversion_read_cnt,   \* ctx->conversion_read_cnt
    conversion_write_cnt,  \* ctx->conversion_write_cnt
    kbuf_live,             \* stage buffers allocated by write and not freed
    last,                  \* what the most recent file operation did
    nWriteIO,              \* writes that got past copy_from_user
    nWriteRet,             \* writes that returned a byte count
    nReadRet,              \* reads that returned a byte count
    task                   \* per caller: where it is in read or write, its locals

vars == <<converted_temp, conversion_read_cnt, conversion_write_cnt,
          kbuf_live, last, nWriteIO, nWriteRet, nReadRet, task>>

ctxvars == <<converted_temp, conversion_read_cnt, conversion_write_cnt>>

\* record of one file operation: which one, the path it took through the
\* code, the count passed, the value returned, the staged bytes (write), the
\* unit byte read and the values computed (write), the bytes copied out (read)
Op(op, path, count, ret, kbuf, unit, parsed, new_temp, out) ==
    [op |-> op, path |-> path, count |-> count, ret |-> ret, kbuf |-> kbuf,
     unit |-> unit, parsed |-> parsed, new_temp |-> new_temp, out |-> out]

\* convertdrv_init: devm_kzalloc zeroes ctx, strlcpy copies "None"
\* the callers whose operations may overlap
Callers == {"a", "b"}

\* a caller that is in neither read nor write; got and seen keep what its
\* last read delivered and the strings that read was entitled to deliver
Idle(got, seen) ==
    [pc |-> "idle", count |-> 0, kbuf |-> <<>>, unit |-> NUL, new_temp |-> 0,
     cnt |-> 0, temp_len |-> 0, out |-> <<>>, pre |-> <<>>, post |-> <<>>,
     got |-> got, seen |-> seen]

Init ==
    /\ task = [p \in Callers |-> Idle(<<>>, {})]
    /\ converted_temp = strlcpy([i \in 0..(MAXBYTES - 1) |-> NUL], SentinelBytes, 5)
    /\ conversion_read_cnt = 0
    /\ conversion_write_cnt = 0
    /\ kbuf_live = 0
    /\ last = Op("init", "init", 0, 0, <<>>, NUL, 0, 0, <<>>)
    /\ nWriteIO = 0
    /\ nWriteRet = 0
    /\ nReadRet = 0

----------------------------------------------------------------------------
(* File operations                                                         *)

\* open puts the buffer back to its initial contents
Open_Reinit(allocOK) ==
    /\ converted_temp' = [i \in 0..(MAXBYTES - 1) |->
                             IF i < 4 THEN SentinelBytes[i + 1] ELSE NUL]
    /\ last' = Op("open", IF allocOK THEN "ok" ELSE "nomem", 0,
                  IF allocOK THEN 0 ELSE -ENOMEM, <<>>, NUL, 0, 0, <<>>)
    /\ UNCHANGED <<task, conversion_read_cnt, conversion_write_cnt, kbuf_live,
                   nWriteIO, nWriteRet, nReadRet>>

\* open_miscdrv_rdwr: allocates a path buffer, logs, frees it
Open(allocOK) ==
    /\ last' = Op("open", IF allocOK THEN "ok" ELSE "nomem", 0,
                  IF allocOK THEN 0 ELSE -ENOMEM, <<>>, NUL, 0, 0, <<>>)
    /\ UNCHANGED <<task, ctxvars, kbuf_live, nWriteIO, nWriteRet, nReadRet>>

\* close_miscdrv_rdwr: allocates a path buffer, logs, frees it
Close(allocOK) ==
    /\ last' = Op("close", IF allocOK THEN "ok" ELSE "nomem", 0,
                  IF allocOK THEN 0 ELSE -ENOMEM, <<>>, NUL, 0, 0, <<>>)
    /\ UNCHANGED <<task, ctxvars, kbuf_live, nWriteIO, nWriteRet, nReadRet>>

\* line 57: the length of the stored string
ReadLen(buf) == strnlen(buf, MAXBYTES)

\* the emptiness test written as < instead of <=
ReadNoData_Strict(temp_len) == temp_len < 0

\* line 63: is there nothing to read
ReadNoData(temp_len) == temp_len <= 0

\* one byte too few copied out
ReadBytes_Short(buf, temp_len) == [i \in 1..(temp_len - 1) |-> buf[i - 1]]

\* line 68: the bytes copy_to_user is asked to copy
ReadBytes(buf, temp_len) == [i \in 1..temp_len |-> buf[i - 1]]

\* the read counted twice
ReadCntAfter_Twice(cnt) == cnt + 2

\* line 74
ReadCntAfter(cnt) == cnt + 1

\* read_miscdrv_rdwr(count); copyOK says whether copy_to_user succeeds
Read(count, copyOK) ==
    LET temp_len == ReadLen(converted_temp)
    IN IF ReadNoData(temp_len)
       THEN /\ last' = Op("read", "nodata", count, -EINVAL, <<>>, NUL, 0, 0, <<>>)
            /\ UNCHANGED <<task, ctxvars, kbuf_live, nWriteIO, nWriteRet, nReadRet>>
       ELSE IF ~copyOK
       THEN /\ last' = Op("read", "fault", count, -EFAULT, <<>>, NUL, 0, 0, <<>>)
            /\ UNCHANGED <<task, ctxvars, kbuf_live, nWriteIO, nWriteRet, nReadRet>>
       ELSE /\ nReadRet < MaxReads
            /\ conversion_read_cnt' = ReadCntAfter(conversion_read_cnt)
            /\ nReadRet' = nReadRet + 1
            /\ last' = Op("read", "ok", count, temp_len, <<>>, NUL, 0, 0,
                          ReadBytes(converted_temp, temp_len))
            /\ UNCHANGED <<task, converted_temp, conversion_write_cnt, kbuf_live,
                           nWriteIO, nWriteRet>>

\* the length check off by one
TooLarge_OffByOne(count) == count > MAXBYTES + 1

\* line 91: the length check
TooLarge(count) == count > MAXBYTES

\* write_miscdrv_rdwr, lines 91-95: the write is refused
WriteTooLarge(count) ==
    /\ TooLarge(count)
    /\ last' = Op("write", "toolarge", count, -ENOMEM, <<>>, NUL, 0, 0, <<>>)
    /\ UNCHANGED <<task, ctxvars, kbuf_live, nWriteIO, nWriteRet, nReadRet>>

\* lines 98-100: kzalloc fails (kzalloc(0) returns ZERO_SIZE_PTR, not NULL)
WriteNoMem(count) ==
    /\ ~TooLarge(count)
    /\ count > 0
    /\ last' = Op("write", "nomem", count, -ENOMEM, <<>>, NUL, 0, 0, <<>>)
    /\ UNCHANGED <<task, ctxvars, kbuf_live, nWriteIO, nWriteRet, nReadRet>>

\* the write counted although copy_from_user failed
WriteFault_Counted(count) ==
    /\ ~TooLarge(count)
    /\ count > 0
    /\ conversion_write_cnt < MaxWrites
    /\ conversion_write_cnt' = conversion_write_cnt + 1
    /\ last' = Op("write", "fault", count, -EFAULT, <<>>, NUL, 0, 0, <<>>)
    /\ UNCHANGED <<task, converted_temp, conversion_read_cnt, kbuf_live, nWriteIO,
                   nWriteRet, nReadRet>>

\* lines 102-106: copy_from_user fails (it cannot for 0 bytes); kbuf is freed
WriteFault(count) ==
    /\ ~TooLarge(count)
    /\ count > 0
    /\ last' = Op("write", "fault", count, -EFAULT, <<>>, NUL, 0, 0, <<>>)
    /\ UNCHANGED <<task, ctxvars, kbuf_live, nWriteIO, nWriteRet, nReadRet>>

\* line 107 with count = 0: strlcpy starts with strlen(kbuf) and kbuf is
\* ZERO_SIZE_PTR, an invalid address.  One outcome is a kernel oops that
\* kills the calling task inside the system call: the call does not return
\* and ctx is as it was.  (The other outcome, the scan coming back, is
\* WriteStaged with count = 0.)
WriteOops(count) ==
    /\ count = 0
    /\ last' = Op("write", "oops", count, 0, <<>>, NUL, 0, 0, <<>>)
    /\ UNCHANGED <<task, ctxvars, kbuf_live, nWriteIO, nWriteRet, nReadRet>>

\* the bounded copy given room for all count bytes
Stage_Full(dest, kbuf, count) ==
    strlcpy(dest, kbuf, IF count + 1 > MAXBYTES THEN MAXBYTES ELSE count + 1)

\* line 107: the buffer after the bounded copy of the staged bytes
Stage(dest, kbuf, count) ==
    strlcpy(dest, kbuf, IF count > MAXBYTES THEN MAXBYTES ELSE count)

\* the unit byte looked for one position early
UnitByte_Offset2(staged) == staged[2]

\* line 109: the unit byte
UnitByte(staged) == staged[3]

\* the terminator stored one byte too far
CutUnit_Offset4(staged) == [staged EXCEPT ![4] = NUL]

\* the unit byte left in place
CutUnit_Kept(staged) == staged

\* line 110: the unit byte is replaced by a terminator
CutUnit(staged) == [staged EXCEPT ![3] = NUL]

\* no final else: every unit byte but 'C' is taken for Fahrenheit
Convert_NoElse(unit, v) == IF unit = ChC THEN CtoF(v) ELSE FtoC(v)

\* lines 118-126: the value computed for a unit byte
Convert(unit, v) ==
    IF unit = ChF THEN FtoC(v)
    ELSE IF unit = ChC THEN CtoF(v)
    ELSE v

\* lines 118-126: the branch taken for a unit byte
ConvertPath(unit) ==
    IF unit = ChF THEN "convF"
    ELSE IF unit = ChC THEN "convC"
    ELSE "badunit"

\* the statistics updated before the parse result is looked at
WriteCntAfter_Always(cnt, ret) == cnt + 1

\* the statistics cleared when the parse fails
WriteCntAfter_Reset(cnt, ret) == IF ret # 0 THEN 0 ELSE cnt + 1

\* lines 113-116 and 129: the write counter after kstrtol returned ret
WriteCntAfter(cnt, ret) == IF ret # 0 THEN cnt ELSE cnt + 1

\* lines 115 and 134: the value write returns after kstrtol returned ret
WriteRet(count, ret) == IF ret # 0 THEN ret ELSE count

\* lines 98-135: stage buffers still allocated when the write returns.  Only
\* the copy_from_user failure frees kbuf; kzalloc(0) allocates nothing.
KbufLiveAfter(live, count) == IF count > 0 THEN live + 1 ELSE live

\* lines 107-134: the staged bytes are copied, the unit byte is taken from
\* offset 3 and replaced by NUL, the prefix is parsed and converted
WriteStaged(count) ==
    /\ ~TooLarge(count)
    /\ nWriteIO < MaxWrites
    /\ \E ubuf \in Payloads(count) :
        LET kbuf   == ubuf
            staged == Stage(converted_temp, kbuf, count)
            unit   == UnitByte(staged)
            buf    == CutUnit(staged)
            r      == kstrtol(CString(buf))
            ret    == WriteRet(count, r.ret)
        IN /\ converted_temp' = buf
           /\ kbuf_live' = KbufLiveAfter(kbuf_live, count)
           /\ conversion_write_cnt' = WriteCntAfter(conversion_write_cnt, r.ret)
           /\ nWriteRet' = IF ret >= 0 THEN nWriteRet + 1 ELSE nWriteRet
           /\ last' = IF r.ret # 0
                      THEN Op("write", "badnum", count, ret, kbuf, unit, 0, 0, <<>>)
                      ELSE Op("write", ConvertPath(unit), count, ret, kbuf, unit,
                              r.val, Convert(unit, r.val), <<>>)
    /\ nWriteIO' = nWriteIO + 1
    /\ UNCHANGED <<task, conversion_read_cnt, nReadRet>>

\* write_miscdrv_rdwr(ubuf, count) for count > 0
Write(count) ==
    \/ WriteTooLarge(count)
    \/ WriteNoMem(count)
    \/ WriteFault(count)
    \/ WriteStaged(count)

\* write_miscdrv_rdwr(ubuf, 0): the scan of ZERO_SIZE_PTR at line 107 either
\* kills the caller or comes back
WriteZero ==
    \/ WriteOops(0)
    \/ WriteStaged(0)

Next ==
    \/ \E allocOK \in BOOLEAN : Open(allocOK)
    \/ \E count \in ReadCounts, copyOK \in BOOLEAN : Read(count, copyOK)
    \/ \E count \in 1..MaxCount : Write(count)
    \/ WriteZero
    \/ \E allocOK \in BOOLEAN : Close(allocOK)

Spec == Init /\ [][Next]_vars

----------------------------------------------------------------------------
(* Overlapping callers.  The context is one static object shared by every  *)
(* open file and the handlers take no lock, so the accesses of two callers *)
(* to it interleave.  Each action below is one access of read or write to  *)
(* the shared context, together with the caller-local code that follows it *)
(* up to the next access.  The copy inside strlcpy and the byte scans of   *)
(* strnlen and kstrtol are taken as single accesses.  open, close and the  *)
(* returns of write before line 107 touch nothing shared and are left to   *)
(* the specification above.                                                *)

\* what the callers write in the overlapping runs
ConcPayloads == { <<49, 48, 48, 70, 0>>,   \* "100F" NUL
                  <<49, 0>> }              \* "1" NUL

\* callers inside read
Readers == {p \in Callers : task[p].pc \in {"r68", "r74load", "r74store"}}

\* callers between the copy of line 107 and the terminator of line 110
Updaters == {p \in Callers : task[p].pc \in {"w109", "w110"}}

\* lines 86-106: the length check, the allocation and copy_from_user succeed
CWriteEnter(p) ==
    /\ task[p].pc = "idle"
    /\ nWriteIO < MaxWrites
    /\ \E ubuf \in ConcPayloads :
        /\ ~TooLarge(Len(ubuf))
        /\ task' = [task EXCEPT ![p] =
                       [Idle(<<>>, {}) EXCEPT !.pc = "w107", !.kbuf = ubuf,
                                              !.count = Len(ubuf)]]
        /\ kbuf_live' = KbufLiveAfter(kbuf_live, Len(ubuf))
    /\ nWriteIO' = nWriteIO + 1
    /\ UNCHANGED <<ctxvars, last, nWriteRet, nReadRet>>

\* line 107: the bounded copy into the shared buffer.  pre and post are the
\* stored string before this write and after its line 110; the reads in
\* progress become entitled to either.
CWriteCopy(p) ==
    /\ task[p].pc = "w107"
    /\ LET staged == Stage(converted_temp, task[p].kbuf, task[p].count)
           pre    == CString(converted_temp)
           post   == CString(CutUnit(staged))
       IN /\ converted_temp' = staged
          /\ task' = [q \in Callers |->
                        IF q = p
                        THEN [task[q] EXCEPT !.pc = "w109", !.pre = pre, !.post = post]
                        ELSE IF q \in Readers
                        THEN [task[q] EXCEPT !.seen = @ \cup {pre, post}]
                        ELSE task[q]]
    /\ UNCHANGED <<conversion_read_cnt, conversion_write_cnt, kbuf_live, last,
                   nWriteIO, nWriteRet, nReadRet>>

\* line 109: the unit byte is loaded from the shared buffer
CWriteUnit(p) ==
    /\ task[p].pc = "w109"
    /\ task' = [task EXCEPT ![p].pc = "w110", ![p].unit = UnitByte(converted_temp)]
    /\ UNCHANGED <<ctxvars, kbuf_live, last, nWriteIO, nWriteRet, nReadRet>>

\* line 110: the terminator is stored at offset 3 of the shared buffer
CWriteCut(p) ==
    /\ task[p].pc = "w110"
    /\ converted_temp' = CutUnit(converted_temp)
    /\ task' = [task EXCEPT ![p].pc = "w112"]
    /\ UNCHANGED <<conversion_read_cnt, conversion_write_cnt, kbuf_live, last,
                   nWriteIO, nWriteRet, nReadRet>>

\* lines 112-126: kstrtol scans the shared buffer; on failure write returns,
\* otherwise the value is converted
CWriteParse(p) ==
    /\ task[p].pc = "w112"
    /\ LET r == kstrtol(CString(converted_temp))
       IN task' = [task EXCEPT ![p] =
                     IF r.ret # 0
                     THEN Idle(<<>>, {})
                     ELSE [@ EXCEPT !.pc = "w129load",
                                    !.new_temp = Convert(task[p].unit, r.val)]]
    /\ UNCHANGED <<ctxvars, kbuf_live, last, nWriteIO, nWriteRet, nReadRet>>

\* line 129, first half: the write counter is loaded
CWriteLoad(p) ==
    /\ task[p].pc = "w129load"
    /\ task' = [task EXCEPT ![p].pc = "w129store", ![p].cnt = conversion_write_cnt]
    /\ UNCHANGED <<ctxvars, kbuf_live, last, nWriteIO, nWriteRet, nReadRet>>

\* lines 129-134, second half: the incremented value is stored and write
\* returns count
CWriteStore(p) ==
    /\ task[p].pc = "w129store"
    /\ conversion_write_cnt' = WriteCntAfter(task[p].cnt, 0)
    /\ nWriteRet' = nWriteRet + 1
    /\ task' = [task EXCEPT ![p] = Idle(<<>>, {})]
    /\ UNCHANGED <<converted_temp, conversion_read_cnt, kbuf_live, last,
                   nWriteIO, nReadRet>>

\* lines 57-66: strnlen scans the shared buffer; an empty buffer ends the
\* read.  The read is entitled to the string stored now or, when a write is
\* between its lines 107 and 110, to that write's pre and post strings.
CReadEnter(p) ==
    /\ task[p].pc = "idle"
    /\ nReadRet + Cardinality(Readers) < MaxReads
    /\ LET temp_len == ReadLen(converted_temp)
           seen     == IF Updaters = {}
                       THEN {CString(converted_temp)}
                       ELSE UNION {{task[q].pre, task[q].post} : q \in Updaters}
       IN task' = [task EXCEPT ![p] =
                     IF ReadNoData(temp_len)
                     THEN Idle(<<>>, {})
                     ELSE [Idle(<<>>, seen) EXCEPT !.pc = "r68",
                                                   !.temp_len = temp_len]]
    /\ UNCHANGED <<ctxvars, kbuf_live, last, nWriteIO, nWriteRet, nReadRet>>

\* lines 68-71: copy_to_user copies temp_len bytes of the shared buffer
CReadCopy(p, copyOK) ==
    /\ task[p].pc = "r68"
    /\ task' = [task EXCEPT ![p] =
                  IF copyOK
                  THEN [@ EXCEPT !.pc = "r74load",
                                 !.out = ReadBytes(converted_temp, task[p].temp_len)]
                  ELSE Idle(<<>>, {})]
    /\ UNCHANGED <<ctxvars, kbuf_live, last, nWriteIO, nWriteRet, nReadRet>>

\* line 74, first half: the read counter is loaded
CReadLoad(p) ==
    /\ task[p].pc = "r74load"
    /\ task' = [task EXCEPT ![p].pc = "r74store", ![p].cnt = conversion_read_cnt]
    /\ UNCHANGED <<ctxvars, kbuf_live, last, nWriteIO, nWriteRet, nReadRet>>

\* lines 74-78, second half: the incremented value is stored and read
\* returns temp_len
CReadStore(p) ==
    /\ task[p].pc = "r74store"
    /\ conversion_read_cnt' = ReadCntAfter(task[p].cnt)
    /\ nReadRet' = nReadRet + 1
    /\ task' = [task EXCEPT ![p] = Idle(<<task[p].out>>, task[p].seen)]
    /\ UNCHANGED <<converted_temp, conversion_write_cnt, kbuf_live, last,
                   nWriteIO, nWriteRet>>

NextConc ==
    \/ \E p \in Callers : CWriteEnter(p)
    \/ \E p \in Callers : CWriteCopy(p)
    \/ \E p \in Callers : CWriteUnit(p)
    \/ \E p \in Callers : CWriteCut(p)
    \/ \E p \in Callers : CWriteParse(p)
    \/ \E p \in Callers : CWriteLoad(p)
    \/ \E p \in Callers : CWriteStore(p)
    \/ \E p \in Callers : CReadEnter(p)
    \/ \E p \in Callers, copyOK \in BOOLEAN : CReadCopy(p, copyOK)
    \/ \E p \in Callers : CReadLoad(p)
    \/ \E p \in Callers : CReadStore(p)

SpecConc == Init /\ [][NextConc]_vars

----------------------------------------------------------------------------
(* Vocabulary of the properties                                            *)

\* the operation recorded in l is a write that got past copy_from_user and
\* came back from the bounded copy
StagedWrite(l) == l.op = "write" /\ l.path \in {"badnum", "badunit", "convF", "convC"}

\* this step is such a write
StagedWriteStep == nWriteIO' = nWriteIO + 1

\* str is the text of a base-10 integer as kstrtol takes it: an optional
\* sign, one digit or more, and at most one closing newline
IntegerText(str) ==
    LET body == IF str # <<>> /\ str[1] \in {ChMinus, ChPlus} THEN Tail(str) ELSE str
        core == IF body # <<>> /\ body[Len(body)] = ChNewline
                THEN SubSeq(body, 1, Len(body) - 1)
                ELSE body
    IN core # <<>> /\ \A i \in 1..Len(core) : IsDigit(core[i])

\* tok is 1 to 3 decimal digits followed by 'F' or 'C'
ValidToken(tok) ==
    /\ Len(tok) \in 2..4
    /\ tok[Len(tok)] \in {ChF, ChC}
    /\ \A i \in 1..(Len(tok) - 1) : IsDigit(tok[i])

\* the number a valid token carries
TokenValue(tok) == DigitsValue(SubSeq(tok, 1, Len(tok) - 1))

\* the documented conversion of value v in unit u
Documented(u, v) ==
    IF u = ChF THEN TruncDiv((v - 32) * 5, 9) ELSE TruncDiv(v * 9, 5) + 32

----------------------------------------------------------------------------
(* Properties                                                              *)

\* C1: a write of more than MAXBYTES bytes is refused with -ENOMEM at the
\* length check and leaves the buffer and both counters as they were
C1_TooLargeRejected ==
    [][(last'.op = "write" /\ last'.count > MAXBYTES)
        => /\ last'.path = "toolarge"
           /\ last'.ret = -ENOMEM
           /\ UNCHANGED ctxvars]_vars

\* C1 happens: an oversized write is refused after the buffer and the
\* counters have moved away from their initial values
C1_Witness ==
    /\ last.op = "write" /\ last.path = "toolarge" /\ last.count > MAXBYTES
    /\ conversion_write_cnt > 0 /\ conversion_read_cnt > 0

C5_ReadBeforeWrite ==
    (last.op = "read" /\ last.path = "ok" /\ nWriteIO = 0)
    => /\ last.out = SentinelBytes
       /\ last.ret = 4
       /\ conversion_read_cnt = nReadRet
       /\ conversion_write_cnt = 0
       /\ converted_temp = [i \in 0..(MAXBYTES - 1) |->
                               IF i < 4 THEN SentinelBytes[i + 1] ELSE NUL]

\* C5 happens: the first operation that changed anything was a read
C5_Witness ==
    /\ last.op = "read" /\ last.path = "ok" /\ nWriteIO = 0
    /\ nReadRet = 1 /\ conversion_read_cnt = 1

\* C6: a write whose prefix parses and whose unit byte is neither 'F' nor
\* 'C' converts nothing, adds one to the write counter and returns count
C6_BadUnitCounted ==
    [][(/\ StagedWriteStep
        /\ IntegerText(CString(converted_temp'))
        /\ last'.unit \notin {ChF, ChC})
        => /\ last'.path = "badunit"
           /\ last'.new_temp = last'.parsed
           /\ conversion_write_cnt' = conversion_write_cnt + 1
           /\ last'.ret = last'.count]_vars

\* C6 happens: "100K" newline was written
C6_Witness ==
    /\ StagedWrite(last) /\ last.kbuf = <<49, 48, 48, 75, 10>>
    /\ last.unit = 75 /\ last.parsed = 100 /\ last.ret = 5

C8_FaultChangesNothing ==
    [][(last'.path = "fault")
        => /\ last'.ret = -EFAULT
           /\ UNCHANGED ctxvars]_vars

\* C8 happens: a write faulted after an earlier write was counted
C8_Witness ==
    /\ last.op = "write" /\ last.path = "fault"
    /\ conversion_write_cnt > 0

\* C9: a read returns -EINVAL exactly when the stored string is empty, and
\* then leaves the buffer and both counters as they were; with "None"
\* stored it does not return -EINVAL
C9_NoDataIffEmpty ==
    [][(last'.op = "read")
        => /\ (last'.ret = -EINVAL) <=> (converted_temp[0] = NUL)
           /\ (last'.ret = -EINVAL) => UNCHANGED ctxvars
           /\ (CString(converted_temp) = SentinelBytes) => (last'.ret # -EINVAL)]_vars

\* C9 happens: a read found the string a write had emptied
C9_Witness ==
    /\ last.op = "read" /\ last.path = "nodata" /\ last.ret = -EINVAL
    /\ nWriteIO > 0

C11_Frame ==
    [][/\ (last'.op = "read")
          => (converted_temp' = converted_temp
              /\ conversion_write_cnt' = conversion_write_cnt)
       /\ (last'.op = "write") => (conversion_read_cnt' = conversion_read_cnt)
       /\ (last'.op \in {"open", "close"}) => UNCHANGED ctxvars
       /\ (converted_temp' # converted_temp
           \/ conversion_write_cnt' # conversion_write_cnt) => (last'.op = "write")
       /\ (conversion_read_cnt' # conversion_read_cnt) => (last'.op = "read")]_vars

\* C11 happens: a close failed for lack of memory after the buffer and both
\* counters had changed
C11_Witness ==
    /\ last.op = "close" /\ last.path = "nomem" /\ last.ret = -ENOMEM
    /\ conversion_write_cnt > 0 /\ conversion_read_cnt > 0
    /\ CString(converted_temp) # SentinelBytes

\* kbuf is 5 bytes: a signed decimal integer of 3 bytes, then 'F' or 'C'
SignedToken(kbuf) ==
    /\ Len(kbuf) = MAXBYTES
    /\ kbuf[4] \in {ChF, ChC}
    /\ \/ \A i \in 1..3 : IsDigit(kbuf[i])
       \/ kbuf[1] \in {ChMinus, ChPlus} /\ IsDigit(kbuf[2]) /\ IsDigit(kbuf[3])

\* the integer the first 3 bytes of such a token denote
SignedValue(kbuf) ==
    IF kbuf[1] = ChMinus THEN -DigitsValue(SubSeq(kbuf, 2, 3))
    ELSE IF kbuf[1] = ChPlus THEN DigitsValue(SubSeq(kbuf, 2, 3))
    ELSE DigitsValue(SubSeq(kbuf, 1, 3))

\* C12: a write of 5 bytes whose first three are the text of a signed
\* decimal integer v and whose fourth is 'F' or 'C' computes (v-32)*5/9
\* resp. (v*9)/5+32 with the quotient truncated toward zero, adds one to
\* the write counter and returns 5
C12_FiveByteConversion ==
    [][(StagedWriteStep /\ last'.count = MAXBYTES /\ SignedToken(last'.kbuf))
        => /\ last'.path = (IF last'.kbuf[4] = ChF THEN "convF" ELSE "convC")
           /\ last'.parsed = SignedValue(last'.kbuf)
           /\ last'.new_temp = Documented(last'.kbuf[4], SignedValue(last'.kbuf))
           /\ conversion_write_cnt' = conversion_write_cnt + 1
           /\ last'.ret = MAXBYTES]_vars

\* C12 happens: "000F" NUL was written and -17, not -18, was computed
C12_Witness ==
    /\ StagedWrite(last) /\ last.kbuf = <<48, 48, 48, 70, 0>>
    /\ last.new_temp = -17 /\ last.ret = MAXBYTES

\* the bytes of str before its first NUL
CutAtNul(str) ==
    IF \E i \in 1..Len(str) : str[i] = NUL
    THEN SubSeq(str, 1, (CHOOSE i \in 1..Len(str) :
                            str[i] = NUL /\ \A j \in 1..(i - 1) : str[j] # NUL) - 1)
    ELSE str

\* the string C13 expects a staged write of count bytes to leave
KeptText(kbuf, count) ==
    CutAtNul(SubSeq(kbuf, 1, IF count - 1 < 3 THEN count - 1 ELSE 3))

\* C13: after a staged write of 1 to 5 bytes, whatever its outcome, the
\* stored string is the first min(count-1, 3) staged bytes cut at their
\* first NUL (never the converted value), and a successful read right after
\* it delivers exactly that string
C13_KeptText ==
    [][/\ (StagedWriteStep /\ last'.count \in 1..MAXBYTES)
          => CString(converted_temp') = KeptText(last'.kbuf, last'.count)
       /\ (/\ StagedWrite(last) /\ last.count \in 1..MAXBYTES
           /\ last'.op = "read" /\ last'.path = "ok")
          => /\ last'.out = KeptText(last.kbuf, last.count)
             /\ last'.ret = Len(KeptText(last.kbuf, last.count))]_vars

\* C13 happens: "100F" NUL was converted to 37, "100" was kept and read back
C13_Witness ==
    /\ last.op = "read" /\ last.path = "ok" /\ last.out = <<49, 48, 48>>
    /\ conversion_write_cnt > 0

C17_ReadWithinCount ==
    (last.op = "read" /\ last.path = "ok")
    => (Len(last.out) <= last.count /\ last.ret <= last.count)

\* what a write of kbuf with count bytes returns, adds to the write counter
\* and leaves as the stored string when the buffer holds dest beforehand
WriteOutcome(dest, kbuf, count) ==
    LET buf == CutUnit(Stage(dest, kbuf, count))
        r   == kstrtol(CString(buf))
    IN [ret     |-> WriteRet(count, r.ret),
        counted |-> WriteCntAfter(0, r.ret),
        str     |-> CString(buf)]

\* the buffer as init leaves it
FreshBuffer == strlcpy([i \in 0..(MAXBYTES - 1) |-> NUL], SentinelBytes, 5)

\* C18 as stated: what a staged write of 0 to 5 bytes returns, adds to the
\* write counter and leaves as the stored string is the same in every
\* reachable state, hence the same as in the state init leaves
C18_WriteDeterministic ==
    [][StagedWriteStep
        => LET o == WriteOutcome(FreshBuffer, last'.kbuf, last'.count)
           IN /\ last'.ret = o.ret
              /\ conversion_write_cnt' - conversion_write_cnt = o.counted
              /\ CString(converted_temp') = o.str]_vars

\* C19: a staged write of 4 bytes or fewer never takes the 'F' or 'C'
\* branch, the unit byte it reads being a terminator or the 'e' of "None";
\* only a write of 5 bytes converts
C19_ConversionNeedsFive ==
    /\ (StagedWrite(last) /\ last.count <= 4)
       => (last.path \notin {"convF", "convC"} /\ last.unit \in {NUL, SentinelBytes[4]})
    /\ (StagedWrite(last) /\ last.path \in {"convF", "convC"})
       => last.count = MAXBYTES

\* C19 happens: "100F" was written with count 4 after a 5-byte write had
\* been converted
C19_Witness ==
    /\ StagedWrite(last) /\ last.kbuf = <<49, 48, 48, 70>> /\ last.count = 4
    /\ last.path = "badunit" /\ last.unit = NUL
    /\ conversion_write_cnt = 2

\* C20 as stated: no stage buffer is left allocated when no write is in
\* progress
C20_StageReleased == kbuf_live = 0

\* C15 as stated: what a read delivers is the stored string as it was
\* before, or as it is after, each write that overlaps it, never a value in
\* between
C15_ReadSeesWholeWrites ==
    \A p \in Callers :
        (task[p].got # <<>>) => (task[p].got[1] \in task[p].seen)

\* C16 as stated: once every caller has returned, each counter equals the
\* number of its operations that returned a byte count
C16_NoLostIncrement ==
    (\A p \in Callers : task[p].pc = "idle")
    => /\ conversion_write_cnt = nWriteRet
       /\ conversion_read_cnt = nReadRet

====
